---------------------------- MODULE Spec2Model ----------------------------
(***************************************************************************)
(* AugmentPipe.forward of core/differentiable_augmentation/augment.py as a *)
(* state machine.  One forward call walks through the stages of the source *)
(* in order (pixel blitting, general geometric parameters, geometric       *)
(* execution, colour parameters, colour execution, image-space filtering,  *)
(* additive noise, cutout); every `torch.rand' / `torch.randn' draw is a   *)
(* nondeterministic choice from a small grid.                              *)
(*                                                                         *)
(* Numbers are exact rationals <<n, d>> (d > 0, lowest terms).  Angles are *)
(* kept as rational multiples of pi; cosine and sine are exact on the      *)
(* multiples of pi/2, and the draw grids are chosen so that only those     *)
(* occur.  exp2 is exact on integers; the normal draws are chosen so that  *)
(* draw * std is an integer.                                               *)
(***************************************************************************)
EXTENDS Integers, Sequences, FiniteSets, TLC

-----------------------------------------------------------------------------
(* Exact rational arithmetic. *)

Abs(x) == IF x < 0 THEN -x ELSE x

RECURSIVE GCD(_, _)
GCD(a, b) == IF b = 0 THEN a ELSE GCD(b, a % b)

Rat(n, d) ==
    LET g == GCD(Abs(n), Abs(d))
        s == IF d < 0 THEN -1 ELSE 1
    IN  <<(s * n) \div g, (s * d) \div g>>

\* In the operators below a singleton comprehension {e(a) : a \in {x}}
\* evaluates the argument x once, however often e uses it.
R(n) == <<n, 1>>
RAdd(x, y) ==
    CHOOSE q \in {Rat(a[1] * b[2] + b[1] * a[2], a[2] * b[2]) : a \in {x}, b \in {y}} : TRUE
RNeg(x) == CHOOSE q \in {<<-a[1], a[2]>> : a \in {x}} : TRUE
RSub(x, y) == RAdd(x, RNeg(y))
RMul(x, y) ==
    CHOOSE q \in {Rat(a[1] * b[1], a[2] * b[2]) : a \in {x}, b \in {y}} : TRUE
RInv(x) == CHOOSE q \in {Rat(a[2], a[1]) : a \in {x}} : TRUE
RDiv(x, y) == RMul(x, RInv(y))
RLt(x, y) == \E a \in {x}, b \in {y} : a[1] * b[2] < b[1] * a[2]
RLe(x, y) == \E a \in {x}, b \in {y} : a[1] * b[2] <= b[1] * a[2]
RMax(x, y) == CHOOSE q \in {IF RLt(a, b) THEN b ELSE a : a \in {x}, b \in {y}} : TRUE
RMin(x, y) == CHOOSE q \in {IF RLt(b, a) THEN b ELSE a : a \in {x}, b \in {y}} : TRUE
RAbs(x) == CHOOSE q \in {<<Abs(a[1]), a[2]>> : a \in {x}} : TRUE
RIsInt(x) == x[2] = 1

\* torch.floor, torch.ceil: \div rounds towards minus infinity.
RFloor(x) == CHOOSE q \in {R(a[1] \div a[2]) : a \in {x}} : TRUE
RCeil(x) == CHOOSE q \in {R(-((-a[1]) \div a[2])) : a \in {x}} : TRUE

\* torch.round: halves go to the even neighbour.
RoundHalfEven(n, d) ==
    LET f == n \div d
        twice == 2 * (n - f * d)
    IN  IF twice < d THEN R(f)
        ELSE IF twice > d THEN R(f + 1)
        ELSE IF f % 2 = 0 THEN R(f) ELSE R(f + 1)
RRound(x) == CHOOSE q \in {RoundHalfEven(a[1], a[2]) : a \in {x}} : TRUE

\* Tensor.clamp(lo, hi).
RClamp(x, lo, hi) == RMin(RMax(x, lo), hi)

RECURSIVE Pow2(_)
Pow2(n) == IF n = 0 THEN 1 ELSE 2 * Pow2(n - 1)

\* torch.exp2, on the integers.
Exp2(x) ==
    CASE RIsInt(x) /\ x[1] >= 0 -> R(Pow2(x[1]))
      [] RIsInt(x) /\ x[1] < 0 -> Rat(1, Pow2(-x[1]))

\* torch.sqrt, on the rationals that are squares of rationals.
ISqrt(n) == CHOOSE r \in 0..n : r * r = n
RSqrt(x) == Rat(ISqrt(x[1]), ISqrt(x[2]))

\* torch.erfinv at the arguments that occur: exact at 0, to three decimals
\* at 1/2.
ErfInv(x) ==
    CASE x = R(0) -> R(0)
      [] x = Rat(1, 2) -> Rat(477, 1000)
      [] x = Rat(-1, 2) -> Rat(-477, 1000)

\* cos and sin of r * pi for r a multiple of 1/2.
CosPi(r) ==
    CASE r[2] = 1 /\ r[1] % 2 = 0 -> R(1)
      [] r[2] = 1 /\ r[1] % 2 = 1 -> R(-1)
      [] r[2] = 2 -> R(0)
SinPi(r) ==
    CASE r[2] = 1 -> R(0)
      [] r[2] = 2 /\ r[1] % 4 = 1 -> R(1)
      [] r[2] = 2 /\ r[1] % 4 = 3 -> R(-1)

-----------------------------------------------------------------------------
(* 3x3 homogeneous matrices and their builders. *)

matrix(r1, r2, r3) == <<r1, r2, r3>>

MatMulOf(A, B) ==
    [i \in 1..3 |-> [j \in 1..3 |->
        RAdd(RAdd(RMul(A[i][1], B[1][j]), RMul(A[i][2], B[2][j])),
             RMul(A[i][3], B[3][j]))]]
MatMul(A, B) == CHOOSE M \in {MatMulOf(a, b) : a \in {A}, b \in {B}} : TRUE

\* A @ column vector.
MatVecOf(A, v) ==
    [i \in 1..3 |->
        RAdd(RAdd(RMul(A[i][1], v[1]), RMul(A[i][2], v[2])), RMul(A[i][3], v[3]))]
MatVec(A, v) == CHOOSE w \in {MatVecOf(a, b) : a \in {A}, b \in {v}} : TRUE

Eye3 == matrix(<<R(1), R(0), R(0)>>, <<R(0), R(1), R(0)>>, <<R(0), R(0), R(1)>>)

translate2d(tx, ty) ==
    matrix(<<R(1), R(0), tx>>, <<R(0), R(1), ty>>, <<R(0), R(0), R(1)>>)

scale2d(sx, sy) ==
    matrix(<<sx, R(0), R(0)>>, <<R(0), sy, R(0)>>, <<R(0), R(0), R(1)>>)

\* theta is given as a multiple of pi.
rotate2d(theta) ==
    matrix(<<CosPi(theta), RNeg(SinPi(theta)), R(0)>>,
           <<SinPi(theta), CosPi(theta), R(0)>>,
           <<R(0), R(0), R(1)>>)

translate2d_inv(tx, ty) == translate2d(RNeg(tx), RNeg(ty))
scale2d_inv(sx, sy) == scale2d(RInv(sx), RInv(sy))
rotate2d_inv(theta) == rotate2d(RNeg(theta))


-----------------------------------------------------------------------------
(* The AugmentPipe object and the arguments of forward. *)

\* debug_percentile=None.
None == <<>>

\* torch.where, elementwise.
where(cond, a, b) == IF cond THEN a ELSE b

MultNames ==
    {"xflip", "rotate90", "xint", "scale", "rotate", "aniso", "xfrac",
     "brightness", "contrast", "lumaflip", "hue", "saturation",
     "imgfilter", "noise", "cutout"}

GeomNames == {"xflip", "rotate90", "xint", "scale", "rotate", "aniso", "xfrac"}
ColorNames == {"brightness", "contrast", "lumaflip", "hue", "saturation"}

\* AugmentPipe(): every probability multiplier 0, the distribution
\* parameters at their defaults, p = 1.
DefaultPipe ==
    [xflip |-> R(0), rotate90 |-> R(0), xint |-> R(0), xint_max |-> Rat(1, 8),
     scale |-> R(0), rotate |-> R(0), aniso |-> R(0), xfrac |-> R(0),
     scale_std |-> Rat(1, 5), rotate_max |-> R(1), aniso_std |-> Rat(1, 5),
     xfrac_std |-> Rat(1, 8),
     brightness |-> R(0), contrast |-> R(0), lumaflip |-> R(0), hue |-> R(0),
     saturation |-> R(0), brightness_std |-> Rat(1, 5),
     contrast_std |-> Rat(1, 2), hue_max |-> R(1), saturation_std |-> R(1),
     imgfilter |-> R(0), imgfilter_bands |-> <<R(1), R(1), R(1), R(1)>>,
     imgfilter_std |-> R(1),
     noise |-> R(0), cutout |-> R(0), noise_std |-> Rat(1, 10),
     cutout_size |-> Rat(1, 2),
     p |-> R(1)]

VARIABLES
    pipe,       \* the AugmentPipe object: multipliers, parameters, buffer p
    args,       \* the arguments of the forward call: shape, images, debug_percentile
    pc,         \* the stage the call is at
    G_inv,      \* the accumulated inverse 2D transform
    C,          \* the accumulated colour transform
    images,     \* the local `images': its shape and the operations applied to it
    sample,     \* the draws and the effective parameter of the stage just run
    geo,        \* the effective geometric parameters of this call, in program order
    margin,     \* geometric execution: <<mx0, my0, mx1, my1>>, <<>> before it ran
    g,          \* image-space filtering: the square of the global gain vector
    band,       \* image-space filtering: the loop index i
    outs,       \* what the calls made so far returned or raised
    callsLeft   \* forward calls still to be made on the same arguments

vars ==
    <<pipe, args, pc, G_inv, C, images, sample, geo, margin, g, band, outs, callsLeft>>

batch_size == args.shape[1]
num_channels == args.shape[2]
height == args.shape[3]
width == args.shape[4]
debug_percentile == args.debug_percentile
Batch == 1..batch_size

NoSample == [stage |-> "none", u |-> <<>>, v |-> <<>>, eff |-> <<>>]

\* The draws.  torch.rand: two points of [0, 1).  torch.randn: where the
\* draw goes through exp2, the two draws z with z * std in {-1, 1}; elsewhere
\* -1 and 1.
Rand == {Rat(1, 4), Rat(3, 4)}
Randn(std) == {RNeg(RInv(std)), RInv(std)}
RandnLin == {R(-1), R(1)}

\* self.<name> * self.p
Prob(name) == RMul(pipe[name], pipe.p)

\* Enabled with the comparison `>= 0' in place of `> 0'.
EnabledAtZero(name) == RLe(R(0), pipe[name])

Enabled(name) == RLt(R(0), pipe[name])

-----------------------------------------------------------------------------
(* Select parameters for pixel blitting.  For each stage: the magnitude of *)
(* one batch element from its draw, the effective parameter from the       *)
(* magnitude and the gate draw u, and the matrix multiplied into G_inv.    *)

xflip_mag(r) == RFloor(RMul(r, R(2)))
\* xflip_i without the debug_percentile override.
xflip_iDrawn(v, u) == where(RLt(u, Prob("xflip")), v, R(0))

xflip_i(v, u) ==
    LET i == where(RLt(u, Prob("xflip")), v, R(0))
    IN  IF debug_percentile # None
        THEN RFloor(RMul(debug_percentile, R(2)))
        ELSE i
xflip_inv(i) == scale2d_inv(RSub(R(1), RMul(R(2), i)), R(1))

rotate90_mag(r) == RFloor(RMul(r, R(4)))
rotate90_i(v, u) ==
    LET i == where(RLt(u, Prob("rotate90")), v, R(0))
    IN  IF debug_percentile # None
        THEN RFloor(RMul(debug_percentile, R(4)))
        ELSE i
rotate90_inv(i) == rotate2d_inv(RMul(Rat(-1, 2), i))

\* r = <<rx, ry>>; the translation is relative to the image dimensions.
xint_mag(r) == [c \in 1..2 |-> RMul(RSub(RMul(r[c], R(2)), R(1)), pipe.xint_max)]
xint_t(v, u) ==
    LET t == where(RLt(u, Prob("xint")), v, <<R(0), R(0)>>)
        d == RMul(RSub(RMul(debug_percentile, R(2)), R(1)), pipe.xint_max)
    IN  IF debug_percentile # None THEN <<d, d>> ELSE t
xint_inv(t) ==
    translate2d_inv(RRound(RMul(t[1], R(width))), RRound(RMul(t[2], R(height))))

-----------------------------------------------------------------------------
(* Select parameters for general geometric transformations. *)

\* exp2(erfinv(debug_percentile * 2 - 1) * std)
DebugExp2(std) ==
    Exp2(RMul(ErfInv(RSub(RMul(debug_percentile, R(2)), R(1))), std))

scale_mag(z) == Exp2(RMul(z, pipe.scale_std))
\* scale_s without torch.where on the gate draw.
scale_sUngated(v, u) ==
    IF debug_percentile # None THEN DebugExp2(pipe.scale_std) ELSE v

scale_s(v, u) ==
    LET s == where(RLt(u, Prob("scale")), v, R(1))
    IN  IF debug_percentile # None THEN DebugExp2(pipe.scale_std) ELSE s
scale_inv(s) == scale2d_inv(s, s)

\* p_rot without the split: the whole probability on each rotation.
p_rotWhole == RClamp(Prob("rotate"), R(0), R(1))

\* P(pre OR post) = p
p_rot == RSub(R(1), RSqrt(RClamp(RSub(R(1), Prob("rotate")), R(0), R(1))))

\* Angles are multiples of pi.
rotate_mag(r) == RMul(RSub(RMul(r, R(2)), R(1)), pipe.rotate_max)
prerot_theta(v, u) ==
    LET theta == where(RLt(u, p_rot), v, R(0))
    IN  IF debug_percentile # None
        THEN RMul(RSub(RMul(debug_percentile, R(2)), R(1)), pipe.rotate_max)
        ELSE theta
postrot_theta(v, u) ==
    LET theta == where(RLt(u, p_rot), v, R(0))
    IN  IF debug_percentile # None THEN R(0) ELSE theta
rot_inv(theta) == rotate2d_inv(RNeg(theta))

aniso_mag(z) == Exp2(RMul(z, pipe.aniso_std))
aniso_s(v, u) ==
    LET s == where(RLt(u, Prob("aniso")), v, R(1))
    IN  IF debug_percentile # None THEN DebugExp2(pipe.aniso_std) ELSE s
aniso_inv(s) == scale2d_inv(s, RInv(s))

xfrac_mag(z) == [c \in 1..2 |-> RMul(z[c], pipe.xfrac_std)]
xfrac_t(v, u) ==
    LET t == where(RLt(u, Prob("xfrac")), v, <<R(0), R(0)>>)
        d == RMul(ErfInv(RSub(RMul(debug_percentile, R(2)), R(1))), pipe.xfrac_std)
    IN  IF debug_percentile # None THEN <<d, d>> ELSE t
xfrac_inv(t) == translate2d_inv(RMul(t[1], R(width)), RMul(t[2], R(height)))

-----------------------------------------------------------------------------
(* The stages as steps of the call. *)

\* Accumulate keeping the object G_inv points to when every factor is the
\* identity matrix.
AccumulateByValue(G, X) ==
    [obj |-> IF \A k \in Batch : X[k] = Eye3 THEN G.obj ELSE "fresh",
     m |-> [k \in Batch |-> MatMul(G.m[k], X[k])]]

\* Accumulate multiplying from the left: G_inv = X @ G_inv.
AccumulateLeft(G, X) ==
    [obj |-> "fresh", m |-> [k \in Batch |-> MatMul(X[k], G.m[k])]]

\* G_inv = G_inv @ X, per batch element.
Accumulate(G, X) ==
    [obj |-> "fresh", m |-> [k \in Batch |-> MatMul(G.m[k], X[k])]]

Drawn(stage, u, v, eff) == [stage |-> stage, u |-> u, v |-> v, eff |-> eff]
Param(stage, eff) == [stage |-> stage, val |-> eff]

Call ==
    /\ pc = "idle"
    /\ callsLeft > 0
    /\ callsLeft' = callsLeft - 1
    /\ images' = [shape |-> args.shape, ops |-> <<>>]
    /\ G_inv' = [obj |-> "I_3", m |-> [k \in Batch |-> Eye3]]
    /\ C' = [obj |-> "unset", f |-> <<>>]
    /\ sample' = NoSample
    /\ geo' = <<>>
    /\ margin' = <<>>
    /\ g' = <<>>
    /\ band' = 0
    /\ pc' = "xflip"
    /\ UNCHANGED <<pipe, args, outs>>

SelectXflip ==
    /\ pc = "xflip"
    /\ IF Enabled("xflip")
       THEN \E r \in [Batch -> Rand], u \in [Batch -> Rand] :
              LET v == [k \in Batch |-> xflip_mag(r[k])]
                  i == [k \in Batch |-> xflip_i(v[k], u[k])]
              IN  /\ G_inv' = Accumulate(G_inv, [k \in Batch |-> xflip_inv(i[k])])
                  /\ sample' = Drawn("xflip", u, v, i)
                  /\ geo' = Append(geo, Param("xflip", i))
       ELSE UNCHANGED <<G_inv, sample, geo>>
    /\ pc' = "rotate90"
    /\ UNCHANGED <<pipe, args, C, images, margin, g, band, outs, callsLeft>>

SelectRotate90 ==
    /\ pc = "rotate90"
    /\ IF Enabled("rotate90")
       THEN \E r \in [Batch -> Rand], u \in [Batch -> Rand] :
              LET v == [k \in Batch |-> rotate90_mag(r[k])]
                  i == [k \in Batch |-> rotate90_i(v[k], u[k])]
              IN  /\ G_inv' = Accumulate(G_inv, [k \in Batch |-> rotate90_inv(i[k])])
                  /\ sample' = Drawn("rotate90", u, v, i)
                  /\ geo' = Append(geo, Param("rotate90", i))
       ELSE UNCHANGED <<G_inv, sample, geo>>
    /\ pc' = "xint"
    /\ UNCHANGED <<pipe, args, C, images, margin, g, band, outs, callsLeft>>

SelectXint ==
    /\ pc = "xint"
    /\ IF Enabled("xint")
       THEN \E r \in [Batch -> Rand \X Rand], u \in [Batch -> Rand] :
              LET v == [k \in Batch |-> xint_mag(r[k])]
                  t == [k \in Batch |-> xint_t(v[k], u[k])]
              IN  /\ G_inv' = Accumulate(G_inv, [k \in Batch |-> xint_inv(t[k])])
                  /\ sample' = Drawn("xint", u, v, t)
                  /\ geo' = Append(geo, Param("xint", t))
       ELSE UNCHANGED <<G_inv, sample, geo>>
    /\ pc' = "scale"
    /\ UNCHANGED <<pipe, args, C, images, margin, g, band, outs, callsLeft>>

SelectScale ==
    /\ pc = "scale"
    /\ IF Enabled("scale")
       THEN \E z \in [Batch -> Randn(pipe.scale_std)], u \in [Batch -> Rand] :
              LET v == [k \in Batch |-> scale_mag(z[k])]
                  s == [k \in Batch |-> scale_s(v[k], u[k])]
              IN  /\ G_inv' = Accumulate(G_inv, [k \in Batch |-> scale_inv(s[k])])
                  /\ sample' = Drawn("scale", u, v, s)
                  /\ geo' = Append(geo, Param("scale", s))
       ELSE UNCHANGED <<G_inv, sample, geo>>
    /\ pc' = "prerot"
    /\ UNCHANGED <<pipe, args, C, images, margin, g, band, outs, callsLeft>>

SelectPreRotation ==
    /\ pc = "prerot"
    /\ IF Enabled("rotate")
       THEN \E r \in [Batch -> Rand], u \in [Batch -> Rand] :
              LET v == [k \in Batch |-> rotate_mag(r[k])]
                  theta == [k \in Batch |-> prerot_theta(v[k], u[k])]
              IN  /\ G_inv' = Accumulate(G_inv, [k \in Batch |-> rot_inv(theta[k])])
                  /\ sample' = Drawn("prerot", u, v, theta)
                  /\ geo' = Append(geo, Param("prerot", theta))
       ELSE UNCHANGED <<G_inv, sample, geo>>
    /\ pc' = "aniso"
    /\ UNCHANGED <<pipe, args, C, images, margin, g, band, outs, callsLeft>>

SelectAniso ==
    /\ pc = "aniso"
    /\ IF Enabled("aniso")
       THEN \E z \in [Batch -> Randn(pipe.aniso_std)], u \in [Batch -> Rand] :
              LET v == [k \in Batch |-> aniso_mag(z[k])]
                  s == [k \in Batch |-> aniso_s(v[k], u[k])]
              IN  /\ G_inv' = Accumulate(G_inv, [k \in Batch |-> aniso_inv(s[k])])
                  /\ sample' = Drawn("aniso", u, v, s)
                  /\ geo' = Append(geo, Param("aniso", s))
       ELSE UNCHANGED <<G_inv, sample, geo>>
    /\ pc' = "postrot"
    /\ UNCHANGED <<pipe, args, C, images, margin, g, band, outs, callsLeft>>

SelectPostRotation ==
    /\ pc = "postrot"
    /\ IF Enabled("rotate")
       THEN \E r \in [Batch -> Rand], u \in [Batch -> Rand] :
              LET v == [k \in Batch |-> rotate_mag(r[k])]
                  theta == [k \in Batch |-> postrot_theta(v[k], u[k])]
              IN  /\ G_inv' = Accumulate(G_inv, [k \in Batch |-> rot_inv(theta[k])])
                  /\ sample' = Drawn("postrot", u, v, theta)
                  /\ geo' = Append(geo, Param("postrot", theta))
       ELSE UNCHANGED <<G_inv, sample, geo>>
    /\ pc' = "xfrac"
    /\ UNCHANGED <<pipe, args, C, images, margin, g, band, outs, callsLeft>>

SelectXfrac ==
    /\ pc = "xfrac"
    /\ IF Enabled("xfrac")
       THEN \E z \in [Batch -> RandnLin \X RandnLin], u \in [Batch -> Rand] :
              LET v == [k \in Batch |-> xfrac_mag(z[k])]
                  t == [k \in Batch |-> xfrac_t(v[k], u[k])]
              IN  /\ G_inv' = Accumulate(G_inv, [k \in Batch |-> xfrac_inv(t[k])])
                  /\ sample' = Drawn("xfrac", u, v, t)
                  /\ geo' = Append(geo, Param("xfrac", t))
       ELSE UNCHANGED <<G_inv, sample, geo>>
    /\ pc' = "geom"
    /\ UNCHANGED <<pipe, args, C, images, margin, g, band, outs, callsLeft>>

-----------------------------------------------------------------------------
(* Execute geometric transformations. *)

\* Number of taps of the geometric low-pass filter Hz_geom (wavelet sym6).
Hz_geom_taps == 12
Hz_pad == Hz_geom_taps \div 4

RMaxOf(S) == CHOOSE x \in S : \A y \in S : RLe(y, x)

\* cp = G_inv @ cp.t(): the image corners of the batch elements K under Gm.
Corners(Gm, K) ==
    LET cx == Rat(width - 1, 2)
        cy == Rat(height - 1, 2)
    IN  {MatVec(Gm[k], c) :
           k \in K,
           c \in {<<RNeg(cx), RNeg(cy), R(1)>>, <<cx, RNeg(cy), R(1)>>,
                  <<cx, cy, R(1)>>, <<RNeg(cx), cy, R(1)>>}}

\* Calculate padding: <<mx0, my0, mx1, my1>> from the corners cp.
MarginOf(cp) ==
    LET cx == Rat(width - 1, 2)
        cy == Rat(height - 1, 2)
        x0 == RAdd(RMaxOf({RNeg(q[1]) : q \in cp}), RSub(R(Hz_pad * 2), cx))
        y0 == RAdd(RMaxOf({RNeg(q[2]) : q \in cp}), RSub(R(Hz_pad * 2), cy))
        x1 == RAdd(RMaxOf({q[1] : q \in cp}), RSub(R(Hz_pad * 2), cx))
        y1 == RAdd(RMaxOf({q[2] : q \in cp}), RSub(R(Hz_pad * 2), cy))
    IN  <<RCeil(RMin(RMax(x0, R(0)), R(width - 1)))[1],
          RCeil(RMin(RMax(y0, R(0)), R(height - 1)))[1],
          RCeil(RMin(RMax(x1, R(0)), R(width - 1)))[1],
          RCeil(RMin(RMax(y1, R(0)), R(height - 1)))[1]>>

\* Margin from the corners of the first element only.
MarginFirst(Gm, K) == CHOOSE m \in {MarginOf(cp) : cp \in {Corners(Gm, {1})}} : TRUE

Margin(Gm, K) == CHOOSE m \in {MarginOf(cp) : cp \in {Corners(Gm, K)}} : TRUE

\* torch.nn.functional.pad(mode='reflect') of the last two dimensions by
\* <<left, right, top, bottom>>: each must be smaller than the dimension.
PadReflect(shape, pad) ==
    IF pad[1] < shape[4] /\ pad[2] < shape[4] /\ pad[3] < shape[3] /\ pad[4] < shape[3]
    THEN [err |-> FALSE,
          shape |-> <<shape[1], shape[2], shape[3] + pad[3] + pad[4],
                      shape[4] + pad[1] + pad[2]>>]
    ELSE [err |-> TRUE, shape |-> <<>>]

\* upfirdn2d: the size of one dimension after zero-stuffing by up, padding,
\* filtering with fw taps and keeping every down'th sample.
UpfirdnSize(n, up, down, pad0, pad1, fw) == (n * up + pad0 + pad1 - fw) \div down + 1
Upsample2dSize(n, fw, up) ==
    UpfirdnSize(n, up, 1, (fw + up - 1) \div 2, (fw - up) \div 2, fw)
Downsample2dSize(n, fw, down, padding) ==
    UpfirdnSize(n, 1, down, padding + (fw - down + 1) \div 2,
                padding + (fw - down) \div 2, fw)

\* Pad image and adjust origin.
AdjustOrigin(G, m) ==
    MatMul(translate2d(Rat(m[1] - m[3], 2), Rat(m[2] - m[4], 2)), G)

\* Upsample: the transform at twice the resolution.
AdjustUpsample(G) ==
    LET G2 == MatMul(MatMul(scale2d(R(2), R(2)), G), scale2d_inv(R(2), R(2)))
    IN  MatMul(MatMul(translate2d(Rat(-1, 2), Rat(-1, 2)), G2),
               translate2d_inv(Rat(-1, 2), Rat(-1, 2)))

\* Execute transformation: the transform in normalised coordinates, from
\* the output of shape `shape' to the input of shape `inshape'.
GridShape == <<batch_size, num_channels, (height + Hz_pad * 2) * 2, (width + Hz_pad * 2) * 2>>
AdjustNormalise(G, inshape, shape) ==
    MatMul(MatMul(scale2d(Rat(2, inshape[4]), Rat(2, inshape[3])), G),
           scale2d_inv(Rat(2, shape[4]), Rat(2, shape[3])))

Raised(kind) == [kind |-> kind, images |-> [shape |-> <<>>, ops |-> <<>>]]
Returned(img) == [kind |-> "tensor", images |-> img]

I_4 == [obj |-> "I_4", f |-> <<>>]

\* The transform handed to affine_grid for one element.
GridTheta(G, m, inshape) ==
    AdjustNormalise(AdjustUpsample(AdjustOrigin(G, m)), inshape, GridShape)

ExecuteGeometric ==
    /\ pc = "geom"
    /\ IF G_inv.obj # "I_3"
       THEN \E m \in {Margin(G_inv.m, Batch)} :
            \E padded \in {PadReflect(images.shape, <<m[1], m[3], m[2], m[4]>>)} :
              /\ margin' = m
              /\ IF padded.err
                 THEN /\ outs' = Append(outs, Raised("RuntimeError"))
                      /\ pc' = "idle"
                      /\ UNCHANGED <<G_inv, images, C>>
                 ELSE \E up \in {<<padded.shape[1], padded.shape[2],
                                   Upsample2dSize(padded.shape[3], Hz_geom_taps, 2),
                                   Upsample2dSize(padded.shape[4], Hz_geom_taps, 2)>>} :
                      \E theta \in {[k \in Batch |-> GridTheta(G_inv.m[k], m, up)]} :
                      \E down \in {<<GridShape[1], GridShape[2],
                                     Downsample2dSize(GridShape[3], Hz_geom_taps, 2, -Hz_pad * 2),
                                     Downsample2dSize(GridShape[4], Hz_geom_taps, 2, -Hz_pad * 2)>>} :
                        /\ G_inv' = [obj |-> "fresh", m |-> theta]
                        /\ images' =
                             [shape |-> down,
                              ops |-> images.ops \o
                                 <<[op |-> "pad", par |-> m],
                                   [op |-> "upsample2d", par |-> up],
                                   [op |-> "grid_sample", par |-> theta],
                                   [op |-> "downsample2d", par |-> down]>>]
                        /\ C' = I_4
                        /\ pc' = "brightness"
                        /\ UNCHANGED outs
       ELSE /\ C' = I_4
            /\ pc' = "brightness"
            /\ UNCHANGED <<G_inv, images, margin, outs>>
    /\ sample' = NoSample
    /\ UNCHANGED <<pipe, args, geo, g, band, callsLeft>>

-----------------------------------------------------------------------------
(* Select parameters for color transformations. *)

brightness_mag(z) == RMul(z, pipe.brightness_std)
brightness_b(v, u) ==
    LET b == where(RLt(u, Prob("brightness")), v, R(0))
    IN  IF debug_percentile # None
        THEN RMul(ErfInv(RSub(RMul(debug_percentile, R(2)), R(1))), pipe.brightness_std)
        ELSE b

contrast_mag(z) == Exp2(RMul(z, pipe.contrast_std))
contrast_c(v, u) ==
    LET c == where(RLt(u, Prob("contrast")), v, R(1))
    IN  IF debug_percentile # None THEN DebugExp2(pipe.contrast_std) ELSE c

lumaflip_mag(r) == RFloor(RMul(r, R(2)))
lumaflip_i(v, u) ==
    LET i == where(RLt(u, Prob("lumaflip")), v, R(0))
    IN  IF debug_percentile # None
        THEN RFloor(RMul(debug_percentile, R(2)))
        ELSE i

hue_mag(r) == RMul(RSub(RMul(r, R(2)), R(1)), pipe.hue_max)
hue_theta(v, u) ==
    LET theta == where(RLt(u, Prob("hue")), v, R(0))
    IN  IF debug_percentile # None
        THEN RMul(RSub(RMul(debug_percentile, R(2)), R(1)), pipe.hue_max)
        ELSE theta

saturation_mag(z) == Exp2(RMul(z, pipe.saturation_std))
saturation_s(v, u) ==
    LET s == where(RLt(u, Prob("saturation")), v, R(1))
    IN  IF debug_percentile # None THEN DebugExp2(pipe.saturation_std) ELSE s

\* Compose updating the matrix C points to in place: C stays the object I_4.
ComposeInPlace(Cm, stage, val) ==
    [obj |-> Cm.obj, f |-> <<[stage |-> stage, val |-> val]>> \o Cm.f]

\* C = X @ C: the factors of C, leftmost first, each with its per-element
\* parameter.
Compose(Cm, stage, val) ==
    [obj |-> "fresh", f |-> <<[stage |-> stage, val |-> val]>> \o Cm.f]

SelectBrightness ==
    /\ pc = "brightness"
    /\ IF Enabled("brightness")
       THEN \E z \in [Batch -> RandnLin], u \in [Batch -> Rand] :
              LET v == [k \in Batch |-> brightness_mag(z[k])]
                  b == [k \in Batch |-> brightness_b(v[k], u[k])]
              IN  /\ C' = Compose(C, "brightness", b)
                  /\ sample' = Drawn("brightness", u, v, b)
       ELSE UNCHANGED <<C, sample>>
    /\ pc' = "contrast"
    /\ UNCHANGED <<pipe, args, G_inv, images, geo, margin, g, band, outs, callsLeft>>

SelectContrast ==
    /\ pc = "contrast"
    /\ IF Enabled("contrast")
       THEN \E z \in [Batch -> Randn(pipe.contrast_std)], u \in [Batch -> Rand] :
              LET v == [k \in Batch |-> contrast_mag(z[k])]
                  c == [k \in Batch |-> contrast_c(v[k], u[k])]
              IN  /\ C' = Compose(C, "contrast", c)
                  /\ sample' = Drawn("contrast", u, v, c)
       ELSE UNCHANGED <<C, sample>>
    /\ pc' = "lumaflip"
    /\ UNCHANGED <<pipe, args, G_inv, images, geo, margin, g, band, outs, callsLeft>>

SelectLumaflip ==
    /\ pc = "lumaflip"
    /\ IF Enabled("lumaflip")
       THEN \E r \in [Batch -> Rand], u \in [Batch -> Rand] :
              LET v == [k \in Batch |-> lumaflip_mag(r[k])]
                  i == [k \in Batch |-> lumaflip_i(v[k], u[k])]
              IN  /\ C' = Compose(C, "lumaflip", i)
                  /\ sample' = Drawn("lumaflip", u, v, i)
       ELSE UNCHANGED <<C, sample>>
    /\ pc' = "hue"
    /\ UNCHANGED <<pipe, args, G_inv, images, geo, margin, g, band, outs, callsLeft>>

SelectHue ==
    /\ pc = "hue"
    /\ IF Enabled("hue") /\ num_channels > 1
       THEN \E r \in [Batch -> Rand], u \in [Batch -> Rand] :
              LET v == [k \in Batch |-> hue_mag(r[k])]
                  theta == [k \in Batch |-> hue_theta(v[k], u[k])]
              IN  /\ C' = Compose(C, "hue", theta)
                  /\ sample' = Drawn("hue", u, v, theta)
       ELSE UNCHANGED <<C, sample>>
    /\ pc' = "saturation"
    /\ UNCHANGED <<pipe, args, G_inv, images, geo, margin, g, band, outs, callsLeft>>

SelectSaturation ==
    /\ pc = "saturation"
    /\ IF Enabled("saturation") /\ num_channels > 1
       THEN \E z \in [Batch -> Randn(pipe.saturation_std)], u \in [Batch -> Rand] :
              LET v == [k \in Batch |-> saturation_mag(z[k])]
                  s == [k \in Batch |-> saturation_s(v[k], u[k])]
              IN  /\ C' = Compose(C, "saturation", s)
                  /\ sample' = Drawn("saturation", u, v, s)
       ELSE UNCHANGED <<C, sample>>
    /\ pc' = "color"
    /\ UNCHANGED <<pipe, args, G_inv, images, geo, margin, g, band, outs, callsLeft>>

-----------------------------------------------------------------------------
(* Execute color transformations. *)

ExecuteColor ==
    /\ pc = "color"
    /\ IF C.obj # "I_4"
       THEN IF num_channels = 3
            THEN /\ images' = [images EXCEPT !.ops = Append(@, [op |-> "color", par |-> C.f])]
                 /\ pc' = "imgfilter"
                 /\ UNCHANGED outs
            ELSE IF num_channels = 1
            THEN /\ images' = [images EXCEPT !.ops = Append(@, [op |-> "luma", par |-> C.f])]
                 /\ pc' = "imgfilter"
                 /\ UNCHANGED outs
            ELSE /\ outs' = Append(outs, Raised("ValueError"))
                 /\ pc' = "idle"
                 /\ UNCHANGED images
       ELSE /\ pc' = "imgfilter"
            /\ UNCHANGED <<images, outs>>
    /\ sample' = NoSample
    /\ UNCHANGED <<pipe, args, G_inv, C, geo, margin, g, band, callsLeft>>

-----------------------------------------------------------------------------
(* Image-space filtering. *)

\* Number of taps of the low-pass filter Hz_lo (wavelet sym2).
Hz_lo_taps == 4

\* Hz_fbank.shape: the rows of np.eye(4, 1), and the taps after the loop
\* that interleaves zeros, drops the last column and convolves with Hz_lo2
\* (2 * Hz_lo_taps - 1 taps).
num_bands == 4
RECURSIVE FbankTaps(_)
FbankTaps(i) ==
    IF i = 0 THEN 1
    ELSE (2 * FbankTaps(i - 1) - 1) + (2 * Hz_lo_taps - 1) - 1
Hz_fbank_taps == FbankTaps(num_bands - 1)

\* Expected power spectrum (1/f).
expected_power == <<Rat(10, 13), Rat(1, 13), Rat(1, 13), Rat(1, 13)>>

imgfilter_mag(z) == Exp2(RMul(z, pipe.imgfilter_std))
\* i counts the bands from 1.
imgfilter_t(i, v, u) ==
    LET band_strength == pipe.imgfilter_bands[i]
        t_i == where(RLt(u, RMul(Prob("imgfilter"), band_strength)), v, R(1))
    IN  IF debug_percentile # None
        THEN IF RLt(R(0), band_strength) THEN DebugExp2(pipe.imgfilter_std) ELSE R(1)
        ELSE t_i

RSum4(x) == RAdd(RAdd(x[1], x[2]), RAdd(x[3], x[4]))

\* The temporary gain vector with its i'th element replaced and its power
\* normalised, squared: (t / sqrt(sum(expected_power * t^2)))^2.
NormalisedSq(i, t_i) ==
    LET t == [j \in 1..num_bands |-> IF j = i THEN t_i ELSE R(1)]
        power == RSum4([j \in 1..num_bands |-> RMul(expected_power[j], RMul(t[j], t[j]))])
    IN  [j \in 1..num_bands |-> RDiv(RMul(t[j], t[j]), power)]

Ones == [k \in Batch |-> [j \in 1..num_bands |-> R(1)]]

SelectImgfilterBand ==
    /\ pc = "imgfilter"
    /\ Enabled("imgfilter")
    /\ band < num_bands
    /\ \E z \in [Batch -> Randn(pipe.imgfilter_std)], u \in [Batch -> Rand] :
         LET i == band + 1
             v == [k \in Batch |-> imgfilter_mag(z[k])]
             t_i == [k \in Batch |-> imgfilter_t(i, v[k], u[k])]
             g0 == IF band = 0 THEN Ones ELSE g
         IN  /\ g' = [k \in Batch |->
                        [j \in 1..num_bands |->
                           RMul(g0[k][j], NormalisedSq(i, t_i[k])[j])]]
             /\ sample' = Drawn("imgfilter", u, v, t_i)
    /\ band' = band + 1
    /\ UNCHANGED <<pipe, args, pc, G_inv, C, images, geo, margin, outs, callsLeft>>

ApplyImgfilter ==
    /\ pc = "imgfilter"
    /\ IF Enabled("imgfilter")
       THEN /\ band = num_bands
            /\ LET pad == Hz_fbank_taps \div 2
                   flat == <<1, batch_size * num_channels, images.shape[3], images.shape[4]>>
                   padded == PadReflect(flat, <<pad, pad, pad, pad>>)
                   conv1 == <<padded.shape[1], padded.shape[2], padded.shape[3],
                              padded.shape[4] - Hz_fbank_taps + 1>>
                   conv2 == <<conv1[1], conv1[2], conv1[3] - Hz_fbank_taps + 1, conv1[4]>>
               IN  IF padded.err
                   THEN /\ outs' = Append(outs, Raised("RuntimeError"))
                        /\ pc' = "idle"
                        /\ UNCHANGED images
                   ELSE /\ images' =
                             [shape |-> <<batch_size, num_channels, conv2[3], conv2[4]>>,
                              ops |-> Append(images.ops, [op |-> "filter", par |-> g])]
                        /\ pc' = "noise"
                        /\ UNCHANGED outs
       ELSE /\ pc' = "noise"
            /\ UNCHANGED <<images, outs>>
    /\ sample' = NoSample
    /\ UNCHANGED <<pipe, args, G_inv, C, geo, margin, g, band, callsLeft>>

-----------------------------------------------------------------------------
(* Image-space corruptions. *)

\* The blocks of torch.randn noise an element can be given.
NoiseFields == {"n1", "n2"}

noise_mag(z) == RMul(RAbs(z), pipe.noise_std)
noise_sigma(v, u) ==
    LET sigma == where(RLt(u, Prob("noise")), v, R(0))
    IN  IF debug_percentile # None
        THEN RMul(ErfInv(debug_percentile), pipe.noise_std)
        ELSE sigma

\* torch.randn(...) * sigma for one element.
NoiseTerm(field, sigma) ==
    IF sigma = R(0) THEN [field |-> "zero", sigma |-> sigma]
    ELSE [field |-> field, sigma |-> sigma]

AddNoise ==
    /\ pc = "noise"
    /\ IF Enabled("noise")
       THEN \E z \in [Batch -> RandnLin], u \in [Batch -> Rand],
               field \in [Batch -> NoiseFields] :
              LET v == [k \in Batch |-> noise_mag(z[k])]
                  sigma == [k \in Batch |-> noise_sigma(v[k], u[k])]
                  term == [k \in Batch |-> NoiseTerm(field[k], sigma[k])]
              IN  /\ images' = [images EXCEPT
                                  !.ops = Append(@, [op |-> "noise", par |-> term])]
                  /\ sample' = Drawn("noise", u, v, sigma)
       ELSE /\ sample' = NoSample
            /\ UNCHANGED images
    /\ pc' = "cutout"
    /\ UNCHANGED <<pipe, args, G_inv, C, geo, margin, g, band, outs, callsLeft>>

cutout_size(u) ==
    LET size == where(RLt(u, Prob("cutout")), pipe.cutout_size, R(0))
    IN  IF debug_percentile # None THEN pipe.cutout_size ELSE size
\* cutout_center without the debug_percentile override.
cutout_centerDrawn(r) == r

cutout_center(r) ==
    IF debug_percentile # None THEN <<debug_percentile, debug_percentile>> ELSE r

\* mask_x with the whole size in place of size / 2.
mask_xWhole(x, size, center) ==
    RLe(size, RAbs(RSub(Rat(2 * x + 1, 2 * width), center[1])))

\* mask_x, mask_y: TRUE where the pixel is kept by that axis.
mask_x(x, size, center) ==
    RLe(Rat(size[1], 2 * size[2]), RAbs(RSub(Rat(2 * x + 1, 2 * width), center[1])))
mask_y(y, size, center) ==
    RLe(Rat(size[1], 2 * size[2]), RAbs(RSub(Rat(2 * y + 1, 2 * height), center[2])))
\* mask = logical_or(mask_x, mask_y), as the number images is multiplied by.
mask(x, y, size, center) ==
    IF mask_x(x, size, center) \/ mask_y(y, size, center) THEN 1 ELSE 0

\* images * mask: the pixels <<x, y>> of one element that are multiplied by
\* 0, the others being multiplied by 1. mask_x is one row over the columns
\* and mask_y one column over the rows, broadcast by logical_or.
cutout_zeroed(size, center) ==
    CHOOSE zero \in
        {{px \in (0..(width - 1)) \X (0..(height - 1)) : ~(px[1] \in kx \/ px[2] \in ky)} :
           kx \in {{x \in 0..(width - 1) : mask_x(x, size, center)}},
           ky \in {{y \in 0..(height - 1) : mask_y(y, size, center)}}} : TRUE

ApplyCutout ==
    /\ pc = "cutout"
    /\ IF Enabled("cutout")
       THEN \E r \in [Batch -> Rand \X Rand], u \in [Batch -> Rand] :
              LET size == [k \in Batch |-> cutout_size(u[k])]
                  center == [k \in Batch |-> cutout_center(r[k])]
                  rect == [k \in Batch |->
                             [size |-> size[k], center |-> center[k],
                              zero |-> cutout_zeroed(size[k], center[k])]]
              IN  /\ images' = [images EXCEPT
                                  !.ops = Append(@, [op |-> "cutout", par |-> rect])]
                  /\ sample' = Drawn("cutout", u, [k \in Batch |-> pipe.cutout_size], size)
       ELSE /\ sample' = NoSample
            /\ UNCHANGED images
    /\ pc' = "return"
    /\ UNCHANGED <<pipe, args, G_inv, C, geo, margin, g, band, outs, callsLeft>>

Return ==
    /\ pc = "return"
    /\ outs' = Append(outs, Returned(images))
    /\ pc' = "idle"
    /\ UNCHANGED <<pipe, args, G_inv, C, images, sample, geo, margin, g, band, callsLeft>>

-----------------------------------------------------------------------------
(* The calls the model makes: an AugmentPipe object, the arguments of      *)
(* forward, and how many times forward is called on them.                  *)

MaxBatch == 2

PVals == {R(0), R(1), R(4)}
\* Multiplier and strength, <<q, p>>: a gate that never fires, one that
\* fires for some draws, one that fires for every draw (q * p = 1 and > 1).
QP == {<<Rat(1, 2), R(0)>>, <<Rat(1, 2), R(1)>>, <<R(1), R(1)>>, <<Rat(1, 2), R(4)>>}
\* The same for rotate: 1 - q * p clamps to the square of a rational.
RotQP ==
    {<<Rat(3, 4), R(0)>>, <<Rat(7, 16), R(1)>>, <<Rat(3, 4), R(1)>>,
     <<Rat(15, 16), R(1)>>, <<R(1), R(1)>>, <<Rat(3, 4), R(4)>>}
QPFor(f) == IF f = "rotate" THEN RotQP ELSE QP
Mixed(f) == IF f = "rotate" THEN <<Rat(3, 4), R(1)>> ELSE <<Rat(1, 2), R(1)>>

\* debug_percentile values at which the parameters of stage f are exact.
UniformDbg == {R(0), Rat(1, 4), Rat(1, 2), Rat(3, 4), R(1)}
DbgFor(f) ==
    CASE f \in {"xflip", "rotate90", "xint", "rotate", "lumaflip", "hue", "cutout"} ->
           UniformDbg
      [] f = "noise" -> {R(0), Rat(1, 2)}
      [] OTHER -> {Rat(1, 2)}

Dims == {<<64, 64>>, <<16, 24>>}
Shapes == {<<n, c, d[1], d[2]>> : n \in 1..MaxBatch, c \in {1, 2, 3}, d \in Dims}

Scenario(P, shape, dbg, calls) ==
    [pipe |-> P, shape |-> shape, debug_percentile |-> dbg, calls |-> calls]

With(P, names, q) == [f \in DOMAIN P |-> IF f \in names THEN q ELSE P[f]]

\* AugmentPipe() at every strength, shape and debug_percentile.
ZeroScenarios ==
    {Scenario([DefaultPipe EXCEPT !.p = p], sh, d, IF d = None THEN 1 ELSE 2) :
       p \in PVals, sh \in Shapes, d \in {None, Rat(9, 10)} \cup UniformDbg}

\* One multiplier enabled, random draws: a single image at every <<q, p>>,
\* a batch at the <<q, p>> where some gates fire and some do not.
SingleScenarios ==
    UNION {{Scenario([With(DefaultPipe, {f}, qp[1]) EXCEPT !.p = qp[2]], sh, None, 1) :
              qp \in QPFor(f),
              sh \in {<<1, 3, 64, 64>>, <<1, 1, 16, 24>>, <<1, 2, 16, 24>>}}
           \cup {Scenario([With(DefaultPipe, {f}, Mixed(f)[1]) EXCEPT !.p = Mixed(f)[2]],
                          <<IF f = "imgfilter" THEN 1 ELSE MaxBatch, 3, 64, 48>>, None, 1)} :
           f \in MultNames}

\* One multiplier enabled, debug_percentile given, forward called twice.
DebugScenarios ==
    UNION {{Scenario(With(DefaultPipe, {f}, R(1)), <<1, 3, 64, 64>>, d, 2) :
              d \in DbgFor(f)} : f \in MultNames}

\* Every geometric multiplier enabled and every gate firing; every
\* multiplier enabled under debug_percentile = 1/2, with and without noise.
FullScenarios ==
    {Scenario([With(DefaultPipe, GeomNames, R(1)) EXCEPT !.p = R(4)],
              <<1, 3, 64, 48>>, None, 1),
     Scenario(With(DefaultPipe, MultNames, R(1)), <<1, 3, 64, 64>>, Rat(1, 2), 2),
     Scenario(With(DefaultPipe, MultNames \ {"noise"}, R(1)), <<2, 3, 64, 64>>,
              Rat(1, 2), 2)}

\* xflip = 1, p = 1, debug_percentile = 0.9 on a 4 x 3 x 64 x 64 batch.
FlipScenario ==
    Scenario(With(DefaultPipe, {"xflip"}, R(1)), <<4, 3, 64, 64>>, Rat(9, 10), 2)

\* Image-space filtering with band strengths other than 1.
BandScenarios ==
    {Scenario([With(DefaultPipe, {"imgfilter"}, R(1)) EXCEPT !.imgfilter_bands = b],
              <<1, 3, 64, 64>>, d, 1) :
       b \in {<<R(1), R(0), R(1), R(0)>>, <<Rat(1, 2), R(2), R(0), R(1)>>},
       d \in {None, Rat(1, 2)}}

Scenarios ==
    ZeroScenarios \cup SingleScenarios \cup DebugScenarios \cup FullScenarios
        \cup {FlipScenario} \cup BandScenarios

Init ==
    \E sc \in Scenarios :
        /\ pipe = sc.pipe
        /\ args = [shape |-> sc.shape, debug_percentile |-> sc.debug_percentile]
        /\ callsLeft = sc.calls
        /\ pc = "idle"
        /\ G_inv = [obj |-> "I_3", m |-> [k \in 1..sc.shape[1] |-> Eye3]]
        /\ C = [obj |-> "unset", f |-> <<>>]
        /\ images = [shape |-> sc.shape, ops |-> <<>>]
        /\ sample = NoSample
        /\ geo = <<>>
        /\ margin = <<>>
        /\ g = <<>>
        /\ band = 0
        /\ outs = <<>>

Next ==
    \/ Call
    \/ SelectXflip
    \/ SelectRotate90
    \/ SelectXint
    \/ SelectScale
    \/ SelectPreRotation
    \/ SelectAniso
    \/ SelectPostRotation
    \/ SelectXfrac
    \/ ExecuteGeometric
    \/ SelectBrightness
    \/ SelectContrast
    \/ SelectLumaflip
    \/ SelectHue
    \/ SelectSaturation
    \/ ExecuteColor
    \/ SelectImgfilterBand
    \/ ApplyImgfilter
    \/ AddNoise
    \/ ApplyCutout
    \/ Return

Spec == Init /\ [][Next]_vars

-----------------------------------------------------------------------------
(* Properties of forward. *)

Finished == pc = "idle" /\ Len(outs) > 0
Untouched == [shape |-> args.shape, ops |-> <<>>]
AllZero == \A f \in MultNames : pipe[f] = R(0)

\* C1. Identity: when every probability multiplier is 0, forward returns the
\* input batch unchanged for every shape, strength p and debug_percentile:
\* G_inv stays the object I_3, C stays the object I_4, no parameter is
\* sampled and no executor (geometric, color, filter, noise, cutout) runs.
C1_Identity ==
    AllZero =>
        /\ G_inv.obj = "I_3"
        /\ C.obj \in {"unset", "I_4"}
        /\ images = Untouched
        /\ sample = NoSample /\ geo = <<>> /\ margin = <<>> /\ g = <<>>
        /\ \A i \in 1..Len(outs) : outs[i] = Returned(Untouched)

C1_Witness ==
    /\ AllZero /\ pipe.p = R(4) /\ debug_percentile = Rat(1, 2)
    /\ batch_size = MaxBatch /\ num_channels = 3
    /\ Len(outs) = 2 /\ outs[2] = Returned(Untouched)

\* Some color transform is accumulated into C during the call.
ColorSampled ==
    \/ \E f \in {"brightness", "contrast", "lumaflip"} : Enabled(f)
    \/ num_channels > 1 /\ \E f \in {"hue", "saturation"} : Enabled(f)

\* C2 as stated. Color-channel error: forward on a batch with 2 channels
\* always ends in ValueError and never returns a tensor, for every
\* configuration of the pipeline.
C2_AlwaysValueError ==
    (num_channels = 2 /\ Finished) =>
        \A i \in 1..Len(outs) : outs[i].kind = "ValueError"

\* C2 amended. A call ends in ValueError exactly when the channel count is
\* neither 1 nor 3 and a color transform was accumulated (brightness,
\* contrast or lumaflip > 0, or hue or saturation > 0 with more than one
\* channel); a 2-channel batch with no color multiplier enabled does not
\* raise ValueError.
C2_ValueErrorIffColor ==
    Finished =>
        \A i \in 1..Len(outs) :
            outs[i].kind = "ValueError" <=> (num_channels \notin {1, 3} /\ ColorSampled)

C2_Witness ==
    /\ num_channels = 2 /\ Enabled("hue") /\ ~Enabled("brightness")
    /\ Finished /\ outs[1] = Raised("ValueError")

\* The additive noise leaves the images as they are: sigma is 0.
NoiseSilent ==
    ~Enabled("noise") \/ RMul(ErfInv(debug_percentile), pipe.noise_std) = R(0)

\* C3 as stated. Debug determinism: two calls with the same batch, the same
\* configuration and the same debug_percentile produce identical outputs
\* whatever is drawn in each call, the noise and cutout stages included.
C3_DebugDeterministic ==
    (debug_percentile # None /\ Len(outs) = 2) => outs[1] = outs[2]

\* C3 amended. Two such calls produce identical outputs when the noise
\* multiplier is 0 or the debug sigma erfinv(debug_percentile) * noise_std
\* is 0; otherwise the torch.randn field of the noise stage is still drawn
\* and added with that sigma.
C3_DebugDeterministicButNoise ==
    (debug_percentile # None /\ Len(outs) = 2 /\ NoiseSilent) => outs[1] = outs[2]

C3_Witness ==
    /\ debug_percentile = Rat(1, 2) /\ Len(outs) = 2 /\ outs[1] = outs[2]
    /\ \A f \in MultNames \ {"noise"} : Enabled(f)
    /\ outs[1].kind = "tensor" /\ Len(outs[1].images.ops) >= 7

\* C4 as stated. Shape invariance: for every input [N, C, H, W] with C in
\* {1, 3}, every configuration and all draws, forward returns a tensor of
\* shape [N, C, H, W].
C4_ShapeInvariance ==
    (num_channels \in {1, 3} /\ Finished) =>
        \A i \in 1..Len(outs) :
            outs[i].kind = "tensor" /\ outs[i].images.shape = args.shape

\* The identity value of each sampled parameter.
IdentityOf(stage) ==
    CASE stage \in {"xint", "xfrac"} -> <<R(0), R(0)>>
      [] stage \in {"scale", "aniso", "contrast", "saturation", "imgfilter"} -> R(1)
      [] OTHER -> R(0)

\* The fixed order of the geometric stages, and the multiplier of each.
GeomOrder ==
    <<"xflip", "rotate90", "xint", "scale", "prerot", "aniso", "postrot", "xfrac">>
MultOf(stage) == IF stage \in {"prerot", "postrot"} THEN "rotate" ELSE stage
InGeomSelection ==
    pc \in {"rotate90", "xint", "scale", "prerot", "aniso", "postrot", "xfrac", "geom"}
StageAt(name) == CHOOSE n \in 1..Len(GeomOrder) : GeomOrder[n] = name
\* The stages the call has gone through.
Passed(n) ==
    \/ pc \notin {GeomOrder[i] : i \in 1..Len(GeomOrder)}
    \/ n < StageAt(pc)

StageInv(stage, val) ==
    CASE stage = "xflip" -> xflip_inv(val)
      [] stage = "rotate90" -> rotate90_inv(val)
      [] stage = "xint" -> xint_inv(val)
      [] stage = "scale" -> scale_inv(val)
      [] stage \in {"prerot", "postrot"} -> rot_inv(val)
      [] stage = "aniso" -> aniso_inv(val)
      [] stage = "xfrac" -> xfrac_inv(val)
ParamOf(stage) == geo[CHOOSE i \in 1..Len(geo) : geo[i].stage = stage].val

\* I_3 @ F_1 @ ... @ F_n for element k, over the enabled stages among the
\* first n of GeomOrder that the call has gone through.
RECURSIVE ProductThrough(_, _)
ProductThrough(n, k) ==
    IF n = 0 THEN Eye3
    ELSE IF Passed(n) /\ Enabled(MultOf(GeomOrder[n]))
    THEN MatMul(ProductThrough(n - 1, k),
                StageInv(GeomOrder[n], ParamOf(GeomOrder[n])[k]))
    ELSE ProductThrough(n - 1, k)

\* C5. Composition order: during parameter selection and at the start of
\* geometric execution, G_inv of every element is the product, left to
\* right from the identity, of the inverses of the enabled stages in the
\* order flip, 90-degree rotation, integer translation, isotropic scale,
\* pre-rotation, anisotropic scale, post-rotation, fractional translation;
\* a disabled stage contributes no factor, and the parameters recorded are
\* those of exactly the enabled stages in that order.
C5_CompositionOrder ==
    InGeomSelection =>
        /\ [i \in 1..Len(geo) |-> geo[i].stage] =
             SelectSeq(GeomOrder,
                       LAMBDA st : Passed(StageAt(st)) /\ Enabled(MultOf(st)))
        /\ \A k \in Batch : G_inv.m[k] = ProductThrough(Len(GeomOrder), k)
        /\ G_inv.obj = "I_3" <=> geo = <<>>

C5_Witness ==
    /\ pc = "geom" /\ Len(geo) = Len(GeomOrder)
    /\ \A i \in 1..Len(geo) : geo[i].val[1] # IdentityOf(geo[i].stage)
    /\ G_inv.m[1] # Eye3

\* The gate of a sample: rand < threshold.
Gated(threshold) ==
    \A k \in Batch :
        sample.eff[k] =
            IF RLt(sample.u[k], threshold) THEN sample.v[k] ELSE IdentityOf(sample.stage)

\* C6 as stated. Sampler gate: without debug_percentile, every element's
\* effective parameter is its sampled magnitude v when its uniform draw u
\* is below q * p (below p_rot for the two rotations) and is the identity
\* value of the augmentation otherwise.
C6_GateAtQP ==
    (debug_percentile = None /\ sample # NoSample) =>
        Gated(IF sample.stage \in {"prerot", "postrot"} THEN p_rot
              ELSE Prob(sample.stage))

\* C6 amended. The same, except that band i of the image-space filter is
\* gated at imgfilter * p * imgfilter_bands[i] rather than imgfilter * p.
C6_GateAtThreshold ==
    (debug_percentile = None /\ sample # NoSample) =>
        Gated(IF sample.stage \in {"prerot", "postrot"} THEN p_rot
              ELSE IF sample.stage = "imgfilter"
              THEN RMul(Prob("imgfilter"), pipe.imgfilter_bands[band])
              ELSE Prob(sample.stage))

C6_Witness ==
    /\ debug_percentile = None /\ sample.stage = "scale" /\ batch_size = MaxBatch
    /\ sample.eff[1] = sample.v[1] /\ sample.v[1] # R(1)
    /\ sample.eff[2] = R(1) /\ sample.v[2] # R(1)

\* The probability that at least one of two independent uniform draws is
\* below t.
AnyOfTwo(t) == RSub(R(1), RMul(RSub(R(1), t), RSub(R(1), t)))

\* C7. Rotation split: with rotate > 0, the pre- and post-rotation are gated
\* by their own draws against the same threshold p_rot with
\* (1 - p_rot)^2 = clamp(1 - q * p, 0, 1), so the probability that at least
\* one of them fires is q * p (clamped to 1); for q * p >= 1 the threshold
\* is 1 and both rotations fire for every draw.
C7_RotationSplit ==
    Enabled("rotate") =>
        /\ RLe(R(0), p_rot) /\ RLe(p_rot, R(1))
        /\ RMul(RSub(R(1), p_rot), RSub(R(1), p_rot)) =
             RClamp(RSub(R(1), Prob("rotate")), R(0), R(1))
        /\ AnyOfTwo(p_rot) = RClamp(Prob("rotate"), R(0), R(1))
        /\ RLe(R(1), Prob("rotate")) => p_rot = R(1)
        /\ (debug_percentile = None /\ sample.stage \in {"prerot", "postrot"}) =>
             /\ Gated(p_rot)
             /\ RLe(R(1), Prob("rotate")) =>
                  \A k \in Batch : sample.eff[k] = sample.v[k] /\ sample.v[k] # R(0)

C7_Witness ==
    /\ pipe.rotate = Rat(3, 4) /\ pipe.p = R(1) /\ p_rot = Rat(1, 2)
    /\ debug_percentile = None /\ pc = "xfrac" /\ Len(geo) = 2
    /\ geo[1].stage = "prerot" /\ geo[1].val[1] # R(0)
    /\ geo[2].stage = "postrot" /\ geo[2].val[1] = R(0)

\* G_inv of element k as accumulated by parameter selection (the executor
\* replaces it), and the margin that element's own corners give.
GInvSelected(k) == ProductThrough(Len(GeomOrder), k)
OwnMargin(k) ==
    CHOOSE m \in {MarginOf(cp) :
                    cp \in {Corners([j \in {k} |-> Gk], {k}) : Gk \in {GInvSelected(k)}}} :
        TRUE
OwnMargins == {<<k, OwnMargin(k)>> : k \in Batch}
ExecutorRan ==
    /\ Len(images.ops) = 4
    /\ [i \in 1..4 |-> images.ops[i].op] =
         <<"pad", "upsample2d", "grid_sample", "downsample2d">>

\* C8 as stated. Batch-element independence: every quantity used for
\* element k, the reflect-padding margin included, depends on element k's
\* own parameters only: the margin is the one element k's own corners give.
C8_MarginPerElement ==
    (pc = "brightness" /\ ExecutorRan) =>
        \A own \in OwnMargins : margin = own[2]

\* C8 amended. The margin is shared by the batch: each component is the
\* maximum over all elements of the margin the element's own corners give;
\* the transform handed to the resampler for element k depends on element
\* k's own G_inv and on that shared margin.
C8_MarginOverBatch ==
    (pc = "brightness" /\ ExecutorRan) =>
        /\ \A owns \in {OwnMargins} :
           \A i \in 1..4 :
             /\ \A own \in owns : margin[i] >= own[2][i]
             /\ \E own \in owns : margin[i] = own[2][i]
        /\ images.ops[1].par = margin
        /\ \A k \in Batch :
             images.ops[3].par[k] =
                 GridTheta(GInvSelected(k), margin, images.ops[2].par)

C8_Witness ==
    /\ pc = "brightness" /\ ExecutorRan /\ batch_size = MaxBatch
    /\ margin # OwnMargin(1)
    /\ margin = OwnMargin(2)

\* affine_grid and grid_sample with align_corners = False: the pixel of the
\* input of shape inshape that output pixel <<X, Y>> of GridShape samples.
GridSource(theta, X, Y, inshape) ==
    LET n == MatVec(theta, <<RSub(Rat(2 * X + 1, GridShape[4]), R(1)),
                             RSub(Rat(2 * Y + 1, GridShape[3]), R(1)), R(1)>>)
    IN  <<RDiv(RSub(RMul(RAdd(n[1], R(1)), R(inshape[4])), R(1)), R(2)),
          RDiv(RSub(RMul(RAdd(n[2], R(1)), R(inshape[3])), R(1)), R(2))>>

FlipCase ==
    /\ pipe = FlipScenario.pipe
    /\ args.shape = FlipScenario.shape
    /\ debug_percentile = FlipScenario.debug_percentile

NoneFired ==
    \A i \in 1..Len(geo) : \A k \in Batch : geo[i].val[k] = IdentityOf(geo[i].stage)

\* C10 as stated. Geometric passthrough: when no geometric augmentation
\* fired for any element, the executor is skipped and the images reaching
\* the color stage are the input images unchanged.
C10_SkippedWhenNoneFired ==
    (pc = "brightness" /\ NoneFired) => (images = Untouched /\ margin = <<>>)

\* C10 amended. The executor is skipped, the images reaching the color
\* stage being the input unchanged, exactly when no geometric multiplier is
\* > 0; when some geometric multiplier is > 0 all five steps run, also in a
\* call in which every gate draw failed.
C10_SkippedIffNoneEnabled ==
    pc = "brightness" =>
        /\ (images = Untouched /\ margin = <<>> /\ G_inv.obj = "I_3")
             <=> ~ \E f \in GeomNames : Enabled(f)
        /\ (\E f \in GeomNames : Enabled(f)) =>
             (ExecutorRan /\ Len(margin) = 4 /\ images.shape = args.shape)

C10_Witness ==
    /\ pc = "brightness" /\ debug_percentile = None /\ pipe.p = R(1)
    /\ geo # <<>> /\ NoneFired
    /\ ExecutorRan /\ Len(margin) = 4

\* The columns and rows strictly inside a rectangle of size s around center.
InsideX(s, center) ==
    {x \in 0..(width - 1) :
       RLt(RAbs(RSub(Rat(2 * x + 1, 2 * width), center[1])), RDiv(s, R(2)))}
InsideY(s, center) ==
    {y \in 0..(height - 1) :
       RLt(RAbs(RSub(Rat(2 * y + 1, 2 * height), center[2])), RDiv(s, R(2)))}
CutoutApplied == pc = "return" /\ sample.stage = "cutout"
CutoutRect == images.ops[Len(images.ops)].par

\* C11. Cutout mask: with cutout > 0, for every element with sampled size s
\* (cutout_size when its gate fired, 0 otherwise) and center (cx, cy), the
\* pixel at column x, row y is set to 0 exactly when both
\* |(x + 0.5) / W - cx| < s / 2 and |(y + 0.5) / H - cy| < s / 2 hold (one
\* rectangle, not a cross) and every other pixel is kept; an element whose
\* gate did not fire has no pixel zeroed.
C11_CutoutMask ==
    CutoutApplied =>
        /\ images.ops[Len(images.ops)].op = "cutout"
        /\ \A k \in Batch :
             /\ CutoutRect[k].size = sample.eff[k]
             /\ debug_percentile = None =>
                  sample.eff[k] = IF RLt(sample.u[k], Prob("cutout"))
                                  THEN pipe.cutout_size ELSE R(0)
             /\ CutoutRect[k].zero =
                  InsideX(sample.eff[k], CutoutRect[k].center)
                      \X InsideY(sample.eff[k], CutoutRect[k].center)
             /\ sample.eff[k] = R(0) => CutoutRect[k].zero = {}

C11_Witness ==
    /\ CutoutApplied /\ debug_percentile = None /\ batch_size = MaxBatch
    /\ sample.eff[1] = pipe.cutout_size /\ CutoutRect[1].zero # {}
    /\ \E px \in CutoutRect[1].zero :
         /\ <<px[1], height - 1 - px[2]>> \notin CutoutRect[1].zero
         /\ <<width - 1 - px[1], px[2]>> \notin CutoutRect[1].zero
    /\ sample.eff[2] = R(0) /\ CutoutRect[2].zero = {}

\* C12 as stated. Flip selector range: in every call, for every
\* debug_percentile in [0, 1], the x-flip selector and the luma-flip
\* selector of every element are in {0, 1}, so the x-flip factor 1 - 2 * i
\* is +1 or -1, and the 90-degree rotation index is in {0, 1, 2, 3}.
C12_SelectorRange ==
    \A k \in Batch :
        /\ sample.stage \in {"xflip", "lumaflip"} => sample.eff[k] \in {R(0), R(1)}
        /\ sample.stage = "xflip" =>
             RSub(R(1), RMul(R(2), sample.eff[k])) \in {R(1), R(-1)}
        /\ sample.stage = "rotate90" => sample.eff[k] \in {R(0), R(1), R(2), R(3)}

=============================================================================
